---- MODULE Spec2Model ----
(***************************************************************************)
(* ips-patch: the IPS patch parser (Patch::parse) and applier              *)
(* (Patch::apply) of src/src/ips.rs as state machines.                     *)
(*                                                                         *)
(* Bytes are integers 0..255.  A Rust slice or Vec<u8> is a sequence; the  *)
(* code's 0-based index i is the sequence's index i + 1.  A Rust panic     *)
(* (index or slice range out of bounds) ends the call with no return       *)
(* value: the state "panic".  parse and apply return eyre::Result, but no  *)
(* path of either constructs an Err that is returned: every IpsError or    *)
(* String the code builds is an expression statement whose value is        *)
(* dropped, so the only outcomes are "Ok" and "panic".                     *)
(***************************************************************************)
EXTENDS Integers, Sequences, FiniteSets, TLC

VARIABLES
    buf,          \* parse: the whole patch buffer handed to Patch::parse
    patch,        \* parse: the slice `patch` still to be read
    records,      \* parse: the Vec<Record> built so far
    parse_state,  \* parse: "idle" | "header" | "loop" | "Ok" | "panic"
    self_records, \* apply: self.records
    ibuf,         \* apply: the input buffer
    obuf,         \* apply: the output buffer
    iter,         \* apply: number of records the for loop has consumed
    apply_state   \* apply: "idle" | "loop" | "Ok" | "panic"

vars == <<buf, patch, records, parse_state, self_records, ibuf, obuf, iter, apply_state>>
parse_vars == <<buf, patch, records, parse_state>>
apply_vars == <<self_records, ibuf, obuf, iter, apply_state>>

----------------------------------------------------------------------------
(* Bounds of the model *)

\* parse: number of records encoded in a generated patch buffer
MaxWireRecs == 2
\* apply: number of records in self.records
MaxRecs == 2
\* apply: length of the input buffer
MaxIn == 2
\* apply: largest record offset
MaxOff == 2
\* apply: largest Normal data length and RLE size
MaxLen == 2

----------------------------------------------------------------------------
(* Slices *)

\* &s[n..]
SliceFrom(s, n) == SubSeq(s, n + 1, Len(s))

\* &s[..n]
SliceTo(s, n) == SubSeq(s, 1, n)

\* "PATCH".as_bytes()
PATCH_MAGIC == <<80, 65, 84, 67, 72>>

\* "EOF".as_bytes()
EOF_MAGIC == <<69, 79, 70>>

\* (x as u32) << n for a byte x and n <= 16: at most 0xFF0000, no bit is lost
\* and the sum of the three terms is at most 0xFFFFFF, below 2^32.
Shl32(x, n) == x * (2 ^ n)

\* (x as u16) << n
Shl16(x, n) == (x * (2 ^ n)) % (2 ^ 16)

\* Mutant of ReadOffset: the three bytes taken least significant first
ReadOffsetLittleEndian(p) == p[1] + Shl32(p[2], 8) + Shl32(p[3], 16)

\* ((patch[0] as u32) << 16) + ((patch[1] as u32) << 8) + (patch[2] as u32)
ReadOffset(p) == Shl32(p[1], 16) + Shl32(p[2], 8) + p[3]

\* ((patch[0] as u16) << 8) + (patch[1] as u16): at most 0xFF00 + 0xFF
ReadU16(p) == (Shl16(p[1], 8) + p[2]) % (2 ^ 16)

\* Mutant of AtEof: the marker accepted wherever a record may start
AtEofPrefix(p) == Len(p) >= 3 /\ SliceTo(p, 3) = EOF_MAGIC

\* patch.len() == 3 && &patch[..3] == "EOF".as_bytes()
AtEof(p) == Len(p) = 3 /\ SliceTo(p, 3) = EOF_MAGIC

Normal(offset, data) == [kind |-> "Normal", offset |-> offset, data |-> data]

RuntimeLengthEncoded(offset, size, value) ==
    [kind |-> "RuntimeLengthEncoded", offset |-> offset, size |-> size, value |-> value]

----------------------------------------------------------------------------
(* Patch::parse, one iteration of its loop as a function of the slice *)

Panicked == [panic |-> TRUE]

Parsed(rec, rest) == [panic |-> FALSE, rec |-> rec, rest |-> rest]

\* The size == 0 arm: rle_size, rle_value.  The InvalidPatch value and the
\* String built when the slice is too short are dropped; the index panics.
ReadRle(offset, p) ==
    IF Len(p) < 2 THEN Panicked
    ELSE LET rle_size == ReadU16(p)
             p1 == SliceFrom(p, 2)
         IN  IF Len(p1) = 0 THEN Panicked
             ELSE Parsed(RuntimeLengthEncoded(offset, rle_size, p1[1]), SliceFrom(p1, 1))

\* The size != 0 arm: Vec::from(&patch[..size]) panics when patch is shorter.
ReadNormal(offset, size, p) ==
    IF Len(p) < size THEN Panicked
    ELSE Parsed(Normal(offset, SliceTo(p, size)), SliceFrom(p, size))

\* offset, size, then one of the two arms.
ReadRecord(p) ==
    IF Len(p) < 3 THEN Panicked
    ELSE LET offset == ReadOffset(p)
             p1 == SliceFrom(p, 3)
         IN  IF Len(p1) < 2 THEN Panicked
             ELSE LET size == ReadU16(p1)
                      p2 == SliceFrom(p1, 2)
                  IN  IF size = 0 THEN ReadRle(offset, p2)
                      ELSE ReadNormal(offset, size, p2)

----------------------------------------------------------------------------
(* The patch buffers parse is run on: a header, the wire form of up to     *)
(* MaxWireRecs records, a tail, cut at every length.                       *)

RECURSIVE Flatten(_)
Flatten(ss) == IF ss = <<>> THEN <<>> ELSE Head(ss) \o Flatten(Tail(ss))

RECURSIVE SeqsUpTo(_, _)
SeqsUpTo(S, n) ==
    IF n = 0 THEN {<<>>}
    ELSE LET shorter == SeqsUpTo(S, n - 1)
         IN  shorter \cup {Append(s, x) : s \in {t \in shorter : Len(t) = n - 1}, x \in S}

\* The big-endian bytes of x, n of them (the file format's integer fields).
RECURSIVE BigEndian(_, _)
BigEndian(x, n) == IF n = 0 THEN <<>> ELSE Append(BigEndian(x \div 256, n - 1), x % 256)

\* A record as it stands in a patch file.
Wire(rec) ==
    IF rec.kind = "Normal"
    THEN BigEndian(rec.offset, 3) \o BigEndian(Len(rec.data), 2) \o rec.data
    ELSE BigEndian(rec.offset, 3) \o <<0, 0>> \o BigEndian(rec.size, 2) \o <<rec.value>>

WireOf(recs) == Flatten([i \in 1..Len(recs) |-> Wire(recs[i])])

\* 66051 = 0x010203, 4542278 = 0x454F46 ("EOF" read as an offset), 258 = 0x0102
WireRecords ==
    {Normal(0, <<1>>), Normal(66051, <<2, 3>>), Normal(4542278, <<1>>)}
    \cup {RuntimeLengthEncoded(o, n, 7) : o \in {1, 66051}, n \in {0, 258}}

WireSeqs == SeqsUpTo(WireRecords, MaxWireRecs)

Headers == {PATCH_MAGIC, <<80, 65, 84, 67, 88>>}

Tails == {EOF_MAGIC, EOF_MAGIC \o <<0>>, EOF_MAGIC \o <<0, 1, 9>> \o EOF_MAGIC,
          EOF_MAGIC \o EOF_MAGIC}

Prefixes(s) == {SliceTo(s, n) : n \in 0..Len(s)}

PatchBuffers ==
    UNION {Prefixes(h \o WireOf(recs) \o t) : h \in Headers, recs \in WireSeqs, t \in Tails}

----------------------------------------------------------------------------
(* Patch::parse *)

ApplyIdle ==
    /\ self_records = <<>>
    /\ ibuf = <<>>
    /\ obuf = <<>>
    /\ iter = 0
    /\ apply_state = "idle"

InitParse ==
    /\ buf \in PatchBuffers
    /\ patch = buf
    /\ records = <<>>
    /\ parse_state = "header"
    /\ ApplyIdle

\* let mut patch = &patch[5..] on a buffer shorter than 5 bytes
ParseHeaderPanic ==
    /\ parse_state = "header"
    /\ Len(buf) < 5
    /\ parse_state' = "panic"
    /\ UNCHANGED <<buf, patch, records, apply_vars>>

\* The header test builds a String and drops it; parsing goes on either way.
ParseHeader ==
    /\ parse_state = "header"
    /\ Len(buf) >= 5
    /\ patch' = SliceFrom(buf, 5)
    /\ parse_state' = "loop"
    /\ UNCHANGED <<buf, records, apply_vars>>

\* break, then Ok(Patch { records })
ParseEof ==
    /\ parse_state = "loop"
    /\ AtEof(patch)
    /\ parse_state' = "Ok"
    /\ UNCHANGED <<buf, patch, records, apply_vars>>

ParseRecord ==
    /\ parse_state = "loop"
    /\ ~AtEof(patch)
    /\ ~ReadRecord(patch).panic
    /\ records' = Append(records, ReadRecord(patch).rec)
    /\ patch' = ReadRecord(patch).rest
    /\ UNCHANGED <<buf, parse_state, apply_vars>>

ParseRecordPanic ==
    /\ parse_state = "loop"
    /\ ~AtEof(patch)
    /\ ReadRecord(patch).panic
    /\ parse_state' = "panic"
    /\ UNCHANGED <<buf, patch, records, apply_vars>>

NextParse ==
    \/ ParseHeaderPanic
    \/ ParseHeader
    \/ ParseEof
    \/ ParseRecord
    \/ ParseRecordPanic

SpecParse == InitParse /\ [][NextParse]_vars

----------------------------------------------------------------------------
(* Patch::apply, the two arms of its match as functions of the buffer *)

Min(a, b) == IF a < b THEN a ELSE b

\* data.len() for a Normal record, size for a RuntimeLengthEncoded one
RecSize(rec) == IF rec.kind = "Normal" THEN Len(rec.data) ELSE rec.size

\* The byte the record holds for the absolute offset k
RecByte(rec, k) == IF rec.kind = "Normal" THEN rec.data[k - rec.offset + 1] ELSE rec.value

\* Mutant of Extend: the buffer replaced by the data
ExtendReplace(o, data) == data

\* obuf.extend_from_slice(data)
Extend(o, data) == o \o data

\* Mutant of PushN: the inclusive range 0..=size
PushNInclusive(o, size, value) == o \o [i \in 1..(size + 1) |-> value]

\* for _i in 0..size { obuf.push(value) }
PushN(o, size, value) == o \o [i \in 1..size |-> value]

\* Mutant of Overrun: the range checked as a slice obuf[offset..offset + n],
\* which fails for an empty range that starts beyond the buffer
OverrunSlice(o, offset, n) == offset + n > Len(o)

\* The loops `for i in 0..data.len() { obuf[offset + i] = .. }` and
\* `for i in offset..(offset + size) { obuf[i] = .. }` index obuf, whose
\* length is the current one: an iteration panics when its index is not below
\* obuf.len().  The ibuf.len() test before the loop builds an IpsError and
\* drops it.
Overrun(o, offset, n) == n > 0 /\ offset + n > Len(o)

\* The number of iterations of the loop that complete
Written(o, offset, n) == IF offset >= Len(o) THEN 0 ELSE Min(n, Len(o) - offset)

\* Mutant of Overwrite: every write lands one index too far
OverwriteShifted(o, rec, n) ==
    [i \in 1..Len(o) |->
        IF (i - 2) \in rec.offset..(rec.offset + n - 1) THEN RecByte(rec, i - 2) ELSE o[i]]

\* obuf after the first n iterations of the loop of record rec
Overwrite(o, rec, n) ==
    [i \in 1..Len(o) |->
        IF (i - 1) \in rec.offset..(rec.offset + n - 1) THEN RecByte(rec, i - 1) ELSE o[i]]

----------------------------------------------------------------------------
(* The inputs apply is run on.  parse emits no Normal record with empty    *)
(* data, so self.records holds none.                                       *)

NormalData == {[i \in 1..n |-> i] : n \in 1..MaxLen}

ApplyRecords ==
    {Normal(o, d) : o \in 0..MaxOff, d \in NormalData}
    \cup {RuntimeLengthEncoded(o, n, 9) : o \in 0..MaxOff, n \in 0..MaxLen}

InputBuffers == {[i \in 1..n |-> 10 + i] : n \in 0..MaxIn}

----------------------------------------------------------------------------
(* Patch::apply *)

ParseIdle ==
    /\ buf = <<>>
    /\ patch = <<>>
    /\ records = <<>>
    /\ parse_state = "idle"

InitApply ==
    /\ self_records \in SeqsUpTo(ApplyRecords, MaxRecs)
    /\ ibuf \in InputBuffers
    /\ obuf = <<>>
    /\ iter = 0
    /\ apply_state = "start"
    /\ ParseIdle

\* let mut obuf = ibuf.to_vec()
ApplyStart ==
    /\ apply_state = "start"
    /\ obuf' = ibuf
    /\ apply_state' = "loop"
    /\ UNCHANGED <<self_records, ibuf, iter, parse_vars>>

\* Mutant of Current: the records iterated from the last to the first
CurrentReversed == self_records[Len(self_records) - iter]

\* The record the iterator yields next
Current == self_records[iter + 1]

HasNext(kind) ==
    /\ apply_state = "loop"
    /\ iter < Len(self_records)
    /\ Current.kind = kind

\* Normal arm, obuf.len() == *offset: extend and continue
ApplyNormalExtend ==
    /\ HasNext("Normal")
    /\ Len(obuf) = Current.offset
    /\ obuf' = Extend(obuf, Current.data)
    /\ iter' = iter + 1
    /\ UNCHANGED <<self_records, ibuf, apply_state, parse_vars>>

\* Normal arm, the copy loop runs to its end
ApplyNormalOverwrite ==
    /\ HasNext("Normal")
    /\ Len(obuf) # Current.offset
    /\ ~Overrun(obuf, Current.offset, Len(Current.data))
    /\ obuf' = Overwrite(obuf, Current, Len(Current.data))
    /\ iter' = iter + 1
    /\ UNCHANGED <<self_records, ibuf, apply_state, parse_vars>>

\* Normal arm, the copy loop indexes past obuf: panic after the writes that fit
ApplyNormalPanic ==
    /\ HasNext("Normal")
    /\ Len(obuf) # Current.offset
    /\ Overrun(obuf, Current.offset, Len(Current.data))
    /\ obuf' = Overwrite(obuf, Current, Written(obuf, Current.offset, Len(Current.data)))
    /\ apply_state' = "panic"
    /\ UNCHANGED <<self_records, ibuf, iter, parse_vars>>

\* RuntimeLengthEncoded arm, obuf.len() == *offset: push size times and continue
ApplyRleExtend ==
    /\ HasNext("RuntimeLengthEncoded")
    /\ Len(obuf) = Current.offset
    /\ obuf' = PushN(obuf, Current.size, Current.value)
    /\ iter' = iter + 1
    /\ UNCHANGED <<self_records, ibuf, apply_state, parse_vars>>

\* RuntimeLengthEncoded arm, the fill loop runs to its end
ApplyRleOverwrite ==
    /\ HasNext("RuntimeLengthEncoded")
    /\ Len(obuf) # Current.offset
    /\ ~Overrun(obuf, Current.offset, Current.size)
    /\ obuf' = Overwrite(obuf, Current, Current.size)
    /\ iter' = iter + 1
    /\ UNCHANGED <<self_records, ibuf, apply_state, parse_vars>>

\* RuntimeLengthEncoded arm, the fill loop indexes past obuf
ApplyRlePanic ==
    /\ HasNext("RuntimeLengthEncoded")
    /\ Len(obuf) # Current.offset
    /\ Overrun(obuf, Current.offset, Current.size)
    /\ obuf' = Overwrite(obuf, Current, Written(obuf, Current.offset, Current.size))
    /\ apply_state' = "panic"
    /\ UNCHANGED <<self_records, ibuf, iter, parse_vars>>

\* The iterator is exhausted: Ok(obuf)
ApplyReturn ==
    /\ apply_state = "loop"
    /\ iter = Len(self_records)
    /\ apply_state' = "Ok"
    /\ UNCHANGED <<self_records, ibuf, obuf, iter, parse_vars>>

NextApply ==
    \/ ApplyStart
    \/ ApplyNormalExtend
    \/ ApplyNormalOverwrite
    \/ ApplyNormalPanic
    \/ ApplyRleExtend
    \/ ApplyRleOverwrite
    \/ ApplyRlePanic
    \/ ApplyReturn

SpecApply == InitApply /\ [][NextApply]_vars

----------------------------------------------------------------------------
(* Both functions *)

Init == InitParse \/ InitApply

Next == NextParse \/ NextApply

Spec == Init /\ [][Next]_vars

----------------------------------------------------------------------------
(* Properties of Patch::parse, checked under SpecParse *)

\* The bytes parse has consumed after the 5 header bytes
Consumed == SubSeq(buf, 6, Len(buf) - Len(patch))

HeaderDone == parse_state \in {"loop", "Ok"} \/ (parse_state = "panic" /\ Len(buf) >= 5)

\* The field a well-formed record stream is in after n of its bytes: the set
\* of names the error may carry when the buffer ends there (empty when n is
\* not a field boundary).  At a record boundary the next read is an offset
\* or the EOF marker.
RECURSIVE FieldsAt(_, _)
FieldsAt(recs, n) ==
    IF recs = <<>> THEN (IF n = 0 THEN {"offset", "eof_marker"} ELSE {})
    ELSE IF n >= Len(Wire(Head(recs))) THEN FieldsAt(Tail(recs), n - Len(Wire(Head(recs))))
    ELSE IF n = 0 THEN {"offset", "eof_marker"}
    ELSE IF n = 3 THEN {"size"}
    ELSE IF n = 5 THEN (IF Head(recs).kind = "Normal" THEN {"data"} ELSE {"rle_length"})
    ELSE IF n = 7 /\ Head(recs).kind = "RuntimeLengthEncoded" THEN {"rle_value"}
    ELSE {}

TruncatedRecord ==
    [offset |-> "TruncatedRecord(offset)", size |-> "TruncatedRecord(size)",
     rle_length |-> "TruncatedRecord(rle_length)", rle_value |-> "TruncatedRecord(rle_value)",
     data |-> "TruncatedRecord(data)", eof_marker |-> "TruncatedRecord(eof_marker)"]

\* The well-formed buffers cut at a field boundary before the EOF terminator,
\* each with the fields being read at the cut
TruncatedBuffers ==
    UNION {{<<PATCH_MAGIC \o SliceTo(WireOf(recs), n), FieldsAt(recs, n)>> :
                n \in {m \in 0..Len(WireOf(recs)) : FieldsAt(recs, m) # {}}} :
           recs \in WireSeqs}

\* C2: a well-formed patch buffer (PATCH, records, EOF) cut at a field
\* boundary before its EOF terminator makes parse return a TruncatedRecord
\* error naming the field being read there; parse returns no records and does
\* not abort.
C2_TruncationReported ==
    \A t \in TruncatedBuffers :
        buf = t[1] => parse_state \in {"header", "loop"} \cup {TruncatedRecord[f] : f \in t[2]}

StartsWithEof(p) == Len(p) >= 3 /\ SliceTo(p, 3) = EOF_MAGIC

\* C3 as stated: whenever the 3 bytes at the current record position are
\* E, O, F, parse stops and returns the records read so far, whatever follows.
C3_EofAlwaysStops ==
    [][(parse_state = "loop" /\ StartsWithEof(patch))
          => (parse_state' = "Ok" /\ records' = records)]_vars

\* C3 amended: E, O, F at the current record position ends the parse with
\* the records read so far exactly when these are the last 3 bytes of the
\* buffer; followed by more bytes they are read as the offset 0x454F46 of a
\* further record (or the read runs off the buffer).
C3_EofAtEndStops ==
    [][/\ (parse_state = "loop" /\ patch = EOF_MAGIC)
            => (parse_state' = "Ok" /\ records' = records)
       /\ (parse_state = "loop" /\ StartsWithEof(patch) /\ Len(patch) > 3)
            => \/ parse_state' = "panic"
               \/ /\ parse_state' = "loop"
                  /\ Len(records') = Len(records) + 1
                  /\ records'[Len(records')].offset = 4542278]_vars

C3_Witness ==
    /\ parse_state = "Ok"
    /\ patch = EOF_MAGIC
    /\ Len(records) = 2
    /\ buf = PATCH_MAGIC \o WireOf(records) \o EOF_MAGIC

\* C4: a buffer shorter than 5 bytes, or not starting with PATCH, makes parse
\* return a MalformedHeader error; it returns no records and does not abort.
C4_HeaderRejected ==
    (Len(buf) < 5 \/ SliceTo(buf, 5) # PATCH_MAGIC)
        => parse_state \in {"header", "MalformedHeader"}

\* C7: the records emitted are, in buffer order, exactly the records whose
\* file form (3-byte big-endian offset; 2-byte big-endian size; for size 0 a
\* 2-byte big-endian length and a value byte, 8 bytes in all; otherwise size
\* data bytes, 5 + size bytes in all) makes up the bytes consumed; offsets are
\* in 0..0xFFFFFF, and no Normal record has empty data.
C7_RecordDecoding ==
    HeaderDone =>
        /\ buf = SliceTo(buf, 5) \o Consumed \o patch
        /\ Consumed = WireOf(records)
        /\ \A i \in 1..Len(records) :
              /\ records[i].offset \in 0..16777215
              /\ records[i].kind = "Normal" =>
                    Len(records[i].data) \in 1..65535
              /\ records[i].kind = "RuntimeLengthEncoded" =>
                    (records[i].size \in 0..65535 /\ records[i].value \in 0..255)

C7_Witness ==
    /\ parse_state = "Ok"
    /\ Len(records) = 2
    /\ records[1] = Normal(66051, <<2, 3>>)
    /\ records[2] = RuntimeLengthEncoded(66051, 258, 7)

----------------------------------------------------------------------------
(* Properties of Patch::apply, checked under SpecApply *)

\* The record covers the absolute offset k
Covers(rec, k) == k \in rec.offset..(rec.offset + RecSize(rec) - 1)

\* The bytes the record stands for
Chunk(rec) == [i \in 1..RecSize(rec) |-> RecByte(rec, rec.offset + i - 1)]

\* The records apply has consumed
Applied == SubSeq(self_records, 1, iter)

Max(S) == CHOOSE x \in S : \A y \in S : y <= x

\* Among the records consumed, those covering offset k
Writers(k) == {i \in 1..iter : Covers(self_records[i], k)}

\* C1: a record whose offset is not the current output length and whose
\* offset + size exceeds the original input length makes apply fail at once
\* with OutOfBounds: no later record is processed, no buffer is returned.
C1_OutOfBoundsReported ==
    [][(/\ apply_state = "loop"
        /\ iter < Len(self_records)
        /\ Current.offset # Len(obuf)
        /\ Current.offset + RecSize(Current) > Len(ibuf))
          => apply_state' = "OutOfBounds"]_vars

\* C5: records are replayed in file order and the last writer wins: while
\* apply has not failed, every output byte is the byte of the last record, in
\* file order, that covers its offset, and the input's byte where none does.
\* So for R1 then R2 covering a common offset the output holds R2's byte.
C5_LastWriterWins ==
    apply_state \in {"loop", "Ok"} =>
        \A k \in 0..(Len(obuf) - 1) :
            IF Writers(k) = {}
            THEN k < Len(ibuf) /\ obuf[k + 1] = ibuf[k + 1]
            ELSE obuf[k + 1] = RecByte(self_records[Max(Writers(k))], k)

\* The whole of apply on a record sequence: <<state, buffer>>
RECURSIVE Replay(_, _)
Replay(recs, o) ==
    IF recs = <<>> THEN <<"Ok", o>>
    ELSE LET rec == Head(recs)
         IN  IF Len(o) = rec.offset
             THEN Replay(Tail(recs), IF rec.kind = "Normal" THEN Extend(o, rec.data)
                                     ELSE PushN(o, rec.size, rec.value))
             ELSE IF Overrun(o, rec.offset, RecSize(rec)) THEN <<"panic", o>>
             ELSE Replay(Tail(recs), Overwrite(o, rec, RecSize(rec)))

\* A stable sort by offset
RECURSIVE InsertByOffset(_, _)
InsertByOffset(rec, sorted) ==
    IF sorted = <<>> THEN <<rec>>
    ELSE IF rec.offset < Head(sorted).offset THEN <<rec>> \o sorted
    ELSE <<Head(sorted)>> \o InsertByOffset(rec, Tail(sorted))

RECURSIVE SortByOffset(_)
SortByOffset(recs) ==
    IF recs = <<>> THEN <<>>
    ELSE InsertByOffset(recs[Len(recs)], SortByOffset(SubSeq(recs, 1, Len(recs) - 1)))

\* Two records, both written in place inside the input, overlapping at offset
\* 1 with different bytes: the output holds the second record's byte, and
\* replaying the records sorted by offset succeeds with another output.
C5_Witness ==
    /\ apply_state = "Ok"
    /\ Len(self_records) = 2
    /\ Len(ibuf) = 2
    /\ self_records[1].offset = 1 /\ RecSize(self_records[1]) = 1
    /\ self_records[2].offset = 0 /\ RecSize(self_records[2]) = 2
    /\ RecByte(self_records[1], 1) # RecByte(self_records[2], 1)
    /\ obuf[2] = RecByte(self_records[2], 1)
    /\ Replay(SortByOffset(self_records), ibuf)[1] = "Ok"
    /\ Replay(SortByOffset(self_records), ibuf)[2] # obuf

\* Each record's offset is the buffer length at the moment it is applied
RECURSIVE AppendOnly(_, _)
AppendOnly(recs, len) ==
    recs = <<>> \/ (Head(recs).offset = len /\ AppendOnly(Tail(recs), len + RecSize(Head(recs))))

RECURSIVE SumSizes(_)
SumSizes(recs) == IF recs = <<>> THEN 0 ELSE RecSize(Head(recs)) + SumSizes(Tail(recs))

\* C6: when every record's offset equals the output length at the moment the
\* record is applied, apply does not fail, and the output is the input
\* followed by each record's bytes in file order, of length input length plus
\* the sum of the record sizes.
C6_AppendOnlyGrowth ==
    AppendOnly(self_records, Len(ibuf)) =>
        /\ apply_state # "panic"
        /\ apply_state \in {"loop", "Ok"} =>
              /\ obuf = ibuf \o Flatten([i \in 1..iter |-> Chunk(self_records[i])])
              /\ Len(obuf) = Len(ibuf) + SumSizes(Applied)
        /\ apply_state = "Ok" => iter = Len(self_records)

C6_Witness ==
    /\ apply_state = "Ok"
    /\ AppendOnly(self_records, Len(ibuf))
    /\ Len(self_records) = 2
    /\ Len(ibuf) = 1
    /\ self_records[1].kind = "Normal"
    /\ self_records[2].kind = "RuntimeLengthEncoded"
    /\ self_records[2].size = 2
    /\ Len(obuf) = 4

IsEmptyRle(rec) == rec.kind = "RuntimeLengthEncoded" /\ rec.size = 0

\* C8: a RuntimeLengthEncoded record of size 0 leaves the output buffer as it
\* is, whatever its offset, and apply goes on to the next record.
C8_EmptyRleNoOp ==
    [][(apply_state = "loop" /\ iter < Len(self_records) /\ IsEmptyRle(Current))
          => (obuf' = obuf /\ apply_state' = "loop" /\ iter' = iter + 1)]_vars

\* Empty runs below, at and beyond the end of the buffer have been applied.
C8_Witness ==
    /\ apply_state = "Ok"
    /\ Len(self_records) = 2
    /\ IsEmptyRle(self_records[1]) /\ self_records[1].offset > Len(ibuf)
    /\ IsEmptyRle(self_records[2]) /\ self_records[2].offset = Len(ibuf)
    /\ Len(ibuf) = 1
    /\ obuf = ibuf

\* C9: no step of apply shortens the output buffer, so a buffer returned is
\* at least as long as the input; with no record it is the input.
C9_NeverShrinks ==
    [][/\ Len(obuf') >= Len(obuf)
       /\ apply_state' \in {"loop", "Ok", "panic"} => Len(obuf') >= Len(ibuf)
       /\ (apply_state' = "Ok" /\ self_records = <<>>) => obuf' = ibuf]_vars

C9_Witness ==
    /\ apply_state = "Ok"
    /\ Len(self_records) = 2
    /\ Len(ibuf) = 2
    /\ Len(obuf) = 3
    /\ self_records[1].offset = 2
    /\ self_records[2].offset = 0

\* C10: a record whose offset is below the current output length and whose
\* offset + size does not exceed the original input length changes exactly
\* the bytes at [offset, offset + size) to the record's bytes; the length and
\* every other byte stay.
C10_InPlaceOverwrite ==
    [][(/\ apply_state = "loop"
        /\ iter < Len(self_records)
        /\ Current.offset < Len(obuf)
        /\ Current.offset + RecSize(Current) <= Len(ibuf))
          => /\ apply_state' = "loop"
             /\ iter' = iter + 1
             /\ Len(obuf') = Len(obuf)
             /\ \A k \in 0..(Len(obuf) - 1) :
                   obuf'[k + 1] = IF Covers(Current, k) THEN RecByte(Current, k)
                                  ELSE obuf[k + 1]]_vars

\* A 1-byte record at offset 1 of a 2-byte input that has grown to 3 bytes.
C10_Witness ==
    /\ apply_state = "Ok"
    /\ Len(ibuf) = 2
    /\ Len(self_records) = 2
    /\ self_records[1].offset = 2 /\ RecSize(self_records[1]) = 1
    /\ self_records[2].offset = 1 /\ RecSize(self_records[2]) = 1
    /\ obuf = <<ibuf[1], RecByte(self_records[2], 1), RecByte(self_records[1], 2)>>

====
